---------------------------- MODULE Spec2Model ----------------------------
(***************************************************************************)
(* A model of the BIOfid workshop demo: the UIMA-to-inline-markup          *)
(* conversion of biofid_demo/uima.py (attribute normalisation, the         *)
(* annotation index, duplicate removal, positional resolution and          *)
(* rendering) and the pairing of biofid_demo/reasoner/statistical/         *)
(* proximity.py.                                                           *)
(*                                                                         *)
(* A Python str is a sequence of one-character strings, so that substring  *)
(* tests, splitting, percent-decoding and the regular expressions of the   *)
(* source are computed and not assumed.  Attribute values of an XML        *)
(* document hold no line break (XML attribute-value normalisation), so     *)
(* '.' of a regular expression matches every character of a value and '$'  *)
(* matches at its end only.                                                *)
(* Text that the source only copies or compares as a whole (a namespace    *)
(* URI, a digest, an attribute key) is one element of its sequence.        *)
(***************************************************************************)
EXTENDS Integers, Sequences, FiniteSets, TLC

(***************************************************************************)
(* Python str helpers                                                      *)
(***************************************************************************)

\* The printable ASCII characters, code 32 to 126, in code order (the grave
\* accent, code 96, is written "<grave>").
Ascii ==
    <<" ","!","\"","#","$","%","&","'","(",")","*","+",",","-",".","/",
      "0","1","2","3","4","5","6","7","8","9",":",";","<","=",">","?","@",
      "A","B","C","D","E","F","G","H","I","J","K","L","M","N","O","P","Q",
      "R","S","T","U","V","W","X","Y","Z","[","\\","]","^","_","<grave>",
      "a","b","c","d","e","f","g","h","i","j","k","l","m","n","o","p","q",
      "r","s","t","u","v","w","x","y","z","{","|","}","~">>

Digits == {"0","1","2","3","4","5","6","7","8","9"}

AsciiSet == {Ascii[i] : i \in 1..Len(Ascii)}

OrdTable == [c \in AsciiSet |-> 31 + (CHOOSE i \in 1..Len(Ascii) : Ascii[i] = c)]

\* ord(c) of a printable ASCII character; 0 for any other character.
Ord(c) == IF c \in AsciiSet THEN OrdTable[c] ELSE 0

\* chr(n) for a decoded byte: control bytes and bytes above 126 are outside
\* the printable alphabet and are kept as one opaque character each.
Chr(n) ==
    IF n >= 32 /\ n <= 126 THEN Ascii[n - 31]
    ELSE IF n < 32 \/ n = 127 THEN "<ctl>" ELSE "<U+FFFD>"

\* sub in s
Contains(s, sub) ==
    \E i \in 1..(Len(s) - Len(sub) + 1) : SubSeq(s, i, i + Len(sub) - 1) = sub

StartsWith(s, pre) ==
    Len(s) >= Len(pre) /\ SubSeq(s, 1, Len(pre)) = pre

\* str.lower() on the ASCII letters
LowerChar(c) ==
    IF Ord(c) >= 65 /\ Ord(c) <= 90 THEN Chr(Ord(c) + 32) ELSE c

Lower(s) == [i \in 1..Len(s) |-> LowerChar(s[i])]

\* The value of a hexadecimal digit, -1 for any other character.
HexValue(c) ==
    CASE c \in Digits -> Ord(c) - 48
      [] Ord(c) >= 65 /\ Ord(c) <= 70 -> Ord(c) - 55
      [] Ord(c) >= 97 /\ Ord(c) <= 102 -> Ord(c) - 87
      [] OTHER -> -1

\* urllib.parse.unquote: every %XX with two hexadecimal digits is replaced by
\* the character of that code, any other '%' is kept.
RECURSIVE unquote(_)
unquote(s) ==
    IF s = <<>> THEN <<>>
    ELSE IF s[1] = "%" /\ Len(s) >= 3 /\ HexValue(s[2]) >= 0 /\ HexValue(s[3]) >= 0
         THEN <<Chr(16 * HexValue(s[2]) + HexValue(s[3]))>> \o unquote(SubSeq(s, 4, Len(s)))
         ELSE <<s[1]>> \o unquote(Tail(s))

\* re.split(r',|\t|;', value): the pieces between the delimiters, empty
\* pieces included.
SplitDelimiters == {",", "\t", ";"}

RECURSIVE SplitFrom(_, _)
SplitFrom(s, piece) ==
    IF s = <<>> THEN <<piece>>
    ELSE IF s[1] \in SplitDelimiters THEN <<piece>> \o SplitFrom(Tail(s), <<>>)
         ELSE SplitFrom(Tail(s), Append(piece, s[1]))

re_split(s) == SplitFrom(s, <<>>)

\* The literals of the source as character sequences.
HTTP_SLASHES == <<"h","t","t","p",":","/","/">>
SCORE_STRING == <<"s","c","o","r","e">>
MODEL_STRING == <<"m","o","d","e","l">>
REMOVED_STRING == <<"-","R","E","M","O","V","E","D">>
BIOFID_SUBSTRING ==
    <<"b","i","o","f","i","d",".","d","e","/","b","i","o","-","o","n","t","o","l","o","g","i","e","s">>
WIKIDATA_SUBSTRING == <<"w","i","k","i","d","a","t","a",".","o","r","g">>
OBOLIBRARY_SUBSTRING == <<"o","b","o","l","i","b","r","a","r","y",".","o","r","g">>
GEONAMES_PREFIX ==
    <<"h","t","t","p","s",":","/","/","s","w","s",".","g","e","o","n","a","m","e","s",".","o","r","g","/">>

\* GENERIC_NAMED_ENTITY_CLASS_INDEX
GENERIC_NAMED_ENTITY_CLASS_INDEX ==
    << <<(<<"l","o","c">>), <<"l","o","c","a","t","i","o","n","_","p","l","a","c","e">> >>,
       <<(<<"m","i","s","c">>), <<"m","i","s","c","e","l","l","a","n","e","o","u","s">> >>,
       <<(<<"o","r","g">>), <<"o","r","g","a","n","i","z","a","t","i","o","n">> >>,
       <<(<<"p","e","r">>), <<"p","e","r","s","o","n","_","h","u","m","a","n","b","e","i","n","g">> >> >>

InClassIndex(s) == \E i \in 1..Len(GENERIC_NAMED_ENTITY_CLASS_INDEX) :
    GENERIC_NAMED_ENTITY_CLASS_INDEX[i][1] = s

ClassIndexGet(s) ==
    GENERIC_NAMED_ENTITY_CLASS_INDEX[
        CHOOSE i \in 1..Len(GENERIC_NAMED_ENTITY_CLASS_INDEX) :
            GENERIC_NAMED_ENTITY_CLASS_INDEX[i][1] = s][2]

(***************************************************************************)
(* The regular expressions of the source, each as re.search computes it    *)
(***************************************************************************)

\* A literal pattern in which every '.' matches any one character.
MatchesAt(s, i, pat) ==
    /\ i + Len(pat) - 1 <= Len(s)
    /\ \A j \in 1..Len(pat) : pat[j] = "." \/ s[i + j - 1] = pat[j]

\* re.search(r'wikidata.org', s)
re_wikidata(s) == \E i \in 1..Len(s) : MatchesAt(s, i, WIKIDATA_SUBSTRING)

\* re.search(r'biofid.de/bio-ontologies', s)
re_biofid(s) == \E i \in 1..Len(s) : MatchesAt(s, i, BIOFID_SUBSTRING)

\* re.search(r'^Q[0-9]+$', s)
re_wikidata_id(s) ==
    Len(s) >= 2 /\ s[1] = "Q" /\ \A i \in 2..Len(s) : s[i] \in Digits

\* re.search(r'^http', s)
re_http(s) == StartsWith(s, <<"h","t","t","p">>)

\* PAGE_ID_VALUE_REGEX r'^.*_(.*)\.xml': both '.*' are greedy, so the match
\* takes the last '_' that has a '.xml' after it and the last '.xml' of s.
\* PageIdUnderscore(s) is the index of that '_', PageIdXml(s) the index of the
\* '.' of that '.xml'.
XML_SUFFIX == <<".","x","m","l">>

XmlAt(s, i) == i + 3 <= Len(s) /\ SubSeq(s, i, i + 3) = XML_SUFFIX

re_page_id(s) ==
    \E u \in 1..Len(s) : s[u] = "_" /\ \E x \in (u + 1)..Len(s) : XmlAt(s, x)

PageIdUnderscore(s) ==
    CHOOSE u \in 1..Len(s) :
        /\ s[u] = "_" /\ \E x \in (u + 1)..Len(s) : XmlAt(s, x)
        /\ \A v \in (u + 1)..Len(s) :
             ~(s[v] = "_" /\ \E x \in (v + 1)..Len(s) : XmlAt(s, x))

PageIdXml(s) ==
    CHOOSE x \in (PageIdUnderscore(s) + 1)..Len(s) :
        XmlAt(s, x) /\ \A y \in (x + 1)..Len(s) : ~XmlAt(s, y)

\* re.sub(PAGE_ID_VALUE_REGEX, r'\g<1>', s): the one match (anchored at the
\* start) is replaced by its group, the rest of s follows.
page_id_sub(s) ==
    IF re_page_id(s)
    THEN SubSeq(s, PageIdUnderscore(s) + 1, PageIdXml(s) - 1)
         \o SubSeq(s, PageIdXml(s) + 4, Len(s))
    ELSE s

\* The group of r'.?([01].[0-9]*)$' may start at j: one of 0 and 1, any one
\* character, then digits to the end.
ScoreGroupAt(s, j) ==
    /\ j >= 1 /\ j + 1 <= Len(s)
    /\ s[j] \in {"0", "1"}
    /\ \A k \in (j + 2)..Len(s) : s[k] \in Digits

\* re.search(r'.?([01].[0-9]*)$', s) is not None: at the leftmost start i the
\* optional character is taken first (group at i + 1), then left out (group
\* at i).
re_score(s) == \E i \in 1..Len(s) : ScoreGroupAt(s, i + 1) \/ ScoreGroupAt(s, i)

ScoreStart(s) ==
    CHOOSE i \in 1..Len(s) :
        /\ ScoreGroupAt(s, i + 1) \/ ScoreGroupAt(s, i)
        /\ \A h \in 1..(i - 1) : ~(ScoreGroupAt(s, h + 1) \/ ScoreGroupAt(s, h))

\* re.search(r'.?([01].[0-9]*)$', s).group(1)
score_group(s) ==
    IF ScoreGroupAt(s, ScoreStart(s) + 1)
    THEN SubSeq(s, ScoreStart(s) + 1, Len(s))
    ELSE SubSeq(s, ScoreStart(s), Len(s))

\* value[:5]
FirstFive(s) == SubSeq(s, 1, IF Len(s) < 5 THEN Len(s) ELSE 5)

\* value[:4]
FirstFour(s) == SubSeq(s, 1, IF Len(s) < 4 THEN Len(s) ELSE 4)
(***************************************************************************)
(* Python dict: a sequence of entries in insertion order.  A value is      *)
(* tagged with its Python type: "str" (a character sequence), "list" or    *)
(* "set" (a sequence of strs; a set's sequence is its iteration order).    *)
(***************************************************************************)

Str(s) == [t |-> "str", v |-> s]
List(l) == [t |-> "list", v |-> l]
SetOf(l) == [t |-> "set", v |-> l]

DKeys(d) == {d[i].k : i \in 1..Len(d)}
DHas(d, k) == k \in DKeys(d)
DIndex(d, k) == CHOOSE i \in 1..Len(d) : d[i].k = k
DGet(d, k) == d[DIndex(d, k)].v

\* d[k] = v: an existing key keeps its place, a new key is appended.
DSet(d, k, v) ==
    IF DHas(d, k) THEN [d EXCEPT ![DIndex(d, k)] = [k |-> k, v |-> v]]
    ELSE Append(d, [k |-> k, v |-> v])

\* A del that deletes nothing
DKeep(d, k) == d

\* del d[k], for a key of d
DDel(d, k) ==
    LET i == DIndex(d, k) IN SubSeq(d, 1, i - 1) \o SubSeq(d, i + 1, Len(d))

\* d1 == d2 of two dicts: the same keys with the same values, in any order.
DictEq(d1, d2) ==
    {<<d1[i].k, d1[i].v>> : i \in 1..Len(d1)} = {<<d2[i].k, d2[i].v>> : i \in 1..Len(d2)}

\* The iteration order of a Python set of strs follows the strs' hashes, which
\* change with the process's hash seed: Permute(l, seed) is the order of the
\* set built from l under that seed (seed 0 keeps l's order).
RECURSIVE Permute(_, _)
Permute(l, seed) ==
    IF Len(l) <= 1 THEN l
    ELSE LET i == (seed % Len(l)) + 1
         IN <<l[i]>> \o Permute(SubSeq(l, 1, i - 1) \o SubSeq(l, i + 1, Len(l)),
                                 seed \div Len(l))

\* The elements of l without repetitions, first occurrences kept.
RECURSIVE Distinct(_)
Distinct(l) ==
    IF l = <<>> THEN <<>>
    ELSE LET r == Distinct(SubSeq(l, 1, Len(l) - 1))
         IN IF \E i \in 1..Len(r) : r[i] = l[Len(l)] THEN r ELSE Append(r, l[Len(l)])

(***************************************************************************)
(* Attribute normalisation                                                 *)
(***************************************************************************)

EXPECTABLE_ATTRIBUTES ==
    <<"pageId", "timexValue", "value", "identifier", "Target", "WikiData", "isInstance", "id">>

VALUE_STRING == "value"
PAGE_ID == "pageId"
URI == "uri"
CLASS_STRING == "class"
HTML_DATA_MODEL_STRING == "data-probability-model"
HTML_DATA_SCORE_STRING == "data-probability-score"

\* RELEVANT_ATTRIBUTES, in the order of the source: a definition has an
\* identifying regex (re) or an attribute key (key), never both.
RELEVANT_ATTRIBUTES ==
    << [name |-> "wikidata", re |-> "wikidata", key |-> ""],
       [name |-> "biofid-uri", re |-> "biofid", key |-> ""],
       [name |-> "wikidata-id", re |-> "wikidata-id", key |-> ""],
       [name |-> PAGE_ID, re |-> "page-id", key |-> ""],
       [name |-> HTML_DATA_SCORE_STRING, re |-> "", key |-> "score"],
       [name |-> HTML_DATA_MODEL_STRING, re |-> "", key |-> "model"],
       [name |-> URI, re |-> "http", key |-> ""],
       [name |-> CLASS_STRING, re |-> "", key |-> CLASS_STRING] >>

\* re.search(attribute.identifying_regex, elem)
re_search(re, s) ==
    CASE re = "wikidata" -> re_wikidata(s)
      [] re = "biofid" -> re_biofid(s)
      [] re = "wikidata-id" -> re_wikidata_id(s)
      [] re = "page-id" -> re_page_id(s)
      [] re = "http" -> re_http(s)
      [] OTHER -> FALSE

\* get_elements_contain_substring(regex, container) for a list of strs: the
\* set of the strs the regex finds, in the set's iteration order.
RECURSIVE Searched(_, _)
Searched(re, container) ==
    IF container = <<>> THEN <<>>
    ELSE (IF re_search(re, container[1]) THEN <<container[1]>> ELSE <<>>)
         \o Searched(re, Tail(container))

get_elements_contain_substring(re, container, seed) ==
    Permute(Distinct(Searched(re, container)), seed)

\* get_scoring_models_and_values for a list of strs: exc is "AttributeError"
\* when a value that contains 'score' has no score literal (re.search returns
\* None and .group raises), else list holds the model/score pairs.
RECURSIVE ScoringFrom(_, _, _)
ScoringFrom(value_list, index, scoring_list) ==
    IF index > Len(value_list) THEN [exc |-> "", list |-> scoring_list]
    ELSE LET element == value_list[index]
             \* value_list[index - 1]: index - 1 = -1 is the last element
             score_model == IF index = 1 THEN value_list[Len(value_list)]
                            ELSE value_list[index - 1]
         IN IF ~Contains(element, SCORE_STRING)
            THEN ScoringFrom(value_list, index + 1, scoring_list)
            ELSE IF Contains(score_model, REMOVED_STRING)
            THEN ScoringFrom(value_list, index + 1, scoring_list)
            ELSE IF ~re_score(element)
            THEN [exc |-> "AttributeError", list |-> scoring_list]
            ELSE ScoringFrom(value_list, index + 1,
                     Append(scoring_list, [model |-> score_model,
                                           score |-> FirstFour(score_group(element))]))

get_scoring_models_and_values(value) == ScoringFrom(value, 1, <<>>)

\* found_attributes[k].append(s) on a defaultdict(list)
FAppend(found, k, s) ==
    IF DHas(found, k) THEN DSet(found, k, Append(DGet(found, k), s))
    ELSE DSet(found, k, <<s>>)

\* Lines 493-503: the expectable attributes, percent-decoded and split.
RECURSIVE CollectFound(_, _, _)
CollectFound(attributes, i, found) ==
    IF i > Len(EXPECTABLE_ATTRIBUTES) THEN [exc |-> "", d |-> found]
    ELSE LET att == EXPECTABLE_ATTRIBUTES[i]
         IN IF ~DHas(attributes, att) THEN CollectFound(attributes, i + 1, found)
            ELSE IF DGet(attributes, att).t # "str" THEN [exc |-> "TypeError", d |-> found]
            ELSE LET value == unquote(DGet(attributes, att).v)
                     split == (Contains(value, HTTP_SLASHES) /\ Contains(value, <<",">>))
                              \/ Contains(value, <<";">>)
                 IN CollectFound(attributes, i + 1,
                        DSet(found, att, IF split THEN re_split(value) ELSE <<value>>))

\* Lines 505-507: the GeoNames id becomes a URI.
GeonamesStep(found) ==
    IF ~DHas(found, "id") THEN found
    ELSE LET ids == DGet(found, "id")
             geonames_id == ids[Len(ids)]
         IN FAppend(DSet(found, "id", SubSeq(ids, 1, Len(ids) - 1)), URI,
                    GEONAMES_PREFIX \o geonames_id \o <<"/">>)

\* Lines 517-519
RECURSIVE AddScores(_, _)
AddScores(found, scoring_list) ==
    IF scoring_list = <<>> THEN found
    ELSE AddScores(FAppend(FAppend(found, HTML_DATA_SCORE_STRING, scoring_list[1].score),
                           HTML_DATA_MODEL_STRING, scoring_list[1].model),
                   Tail(scoring_list))

\* Lines 522-531
RECURSIVE Classify(_, _)
Classify(found, v) ==
    IF v = <<>> THEN found
    ELSE LET attribute_value == v[1]
             lowered_value == Lower(attribute_value)
             next == CASE Contains(attribute_value, BIOFID_SUBSTRING)
                            -> FAppend(found, "biofid-uri", attribute_value)
                       [] Contains(attribute_value, WIKIDATA_SUBSTRING)
                            -> FAppend(found, "wikidata", attribute_value)
                       [] Contains(attribute_value, OBOLIBRARY_SUBSTRING)
                            -> FAppend(found, URI, attribute_value)
                       [] InClassIndex(lowered_value)
                            -> FAppend(found, CLASS_STRING, ClassIndexGet(lowered_value))
                       [] OTHER -> found
         IN Classify(next, Tail(v))

\* Lines 509-533
RECURSIVE ValueStep(_, _)
ValueStep(found, names) ==
    IF names = <<>> THEN [exc |-> "", d |-> found]
    ELSE LET n == names[1]
         IN IF ~DHas(found, n) THEN ValueStep(found, Tail(names))
            ELSE LET v == DGet(found, n)
                     scoring == get_scoring_models_and_values(v)
                 IN IF scoring.exc # "" THEN [exc |-> scoring.exc, d |-> found]
                    ELSE IF scoring.list # <<>>
                    THEN ValueStep(AddScores(found, scoring.list), Tail(names))
                    ELSE ValueStep(DDel(Classify(found, v), n), Tail(names))

\* f'{attribute_name}-{counter}'
IndexedKey(attribute_name, counter) == attribute_name \o "-" \o ToString(counter)

\* attributes.update(elements_to_add) for the enumerated values
RECURSIVE UpdateEnumerated(_, _, _, _)
UpdateEnumerated(attributes, attribute_name, values, counter) ==
    IF counter >= Len(values) THEN attributes
    ELSE UpdateEnumerated(
             DSet(attributes, IndexedKey(attribute_name, counter), Str(values[counter + 1])),
             attribute_name, values, counter + 1)

\* separate_container_values_in_enumerated_attributes
separate_container_values_in_enumerated_attributes(attributes, attribute_name) ==
    IF ~DHas(attributes, attribute_name) THEN attributes
    ELSE LET attribute_value == DGet(attributes, attribute_name)
         IN IF attribute_value.t = "str" THEN attributes
            ELSE IF Len(attribute_value.v) > 1
            THEN UpdateEnumerated(DDel(attributes, attribute_name), attribute_name,
                                  attribute_value.v, 0)
            ELSE IF Len(attribute_value.v) = 1
            THEN DSet(attributes, attribute_name, Str(attribute_value.v[1]))
            ELSE DDel(attributes, attribute_name)

\* Lines 539-553: one raw attribute against the definitions in order, up to
\* the first definition that yields a value.
RECURSIVE RelevantLoop(_, _, _, _, _, _)
RelevantLoop(new_attributes, attribute_name, attribute_value, i, delete, seed) ==
    IF i > Len(RELEVANT_ATTRIBUTES)
    THEN [new |-> new_attributes, delete |-> delete]
    ELSE LET attribute == RELEVANT_ATTRIBUTES[i]
             new_value ==
                 IF attribute.key = ""
                 THEN SetOf(get_elements_contain_substring(attribute.re, attribute_value, seed))
                 ELSE IF attribute_name = attribute.name THEN List(attribute_value)
                 ELSE List(<<>>)
             found_new_value == new_value.v # <<>>
             delete1 == IF found_new_value /\ attribute.name = attribute_name
                        THEN FALSE ELSE delete
             new1 == IF found_new_value
                     THEN DSet(new_attributes, attribute.name, new_value)
                     ELSE new_attributes
             new2 == separate_container_values_in_enumerated_attributes(new1, attribute.name)
         IN IF found_new_value THEN [new |-> new2, delete |-> delete1]
            ELSE RelevantLoop(new2, attribute_name, attribute_value, i + 1, delete1, seed)

\* Lines 536-556: every found attribute in turn; del of a key that the
\* enumeration has already removed raises KeyError.
RECURSIVE FoundLoop(_, _, _, _)
FoundLoop(found_attributes, new_attributes, idx, seed) ==
    IF idx > Len(found_attributes) THEN [exc |-> "", d |-> new_attributes]
    ELSE LET attribute_name == found_attributes[idx].k
             r == RelevantLoop(new_attributes, attribute_name, found_attributes[idx].v,
                               1, TRUE, seed)
         IN IF ~r.delete THEN FoundLoop(found_attributes, r.new, idx + 1, seed)
            ELSE IF ~DHas(r.new, attribute_name) THEN [exc |-> "KeyError", d |-> r.new]
            ELSE FoundLoop(found_attributes, DDel(r.new, attribute_name), idx + 1, seed)

\* Lines 558-560
TargetStep(found_attributes, new_attributes) ==
    IF DHas(new_attributes, "Target")
    THEN DDel(DSet(new_attributes, "wikipedia-title", List(DGet(found_attributes, "Target"))),
              "Target")
    ELSE new_attributes

\* Lines 562-563: re.sub raises TypeError for a value that is no str.
PageIdStep(new_attributes) ==
    IF ~DHas(new_attributes, PAGE_ID) THEN [exc |-> "", d |-> new_attributes]
    ELSE IF DGet(new_attributes, PAGE_ID).t # "str"
    THEN [exc |-> "TypeError", d |-> new_attributes]
    ELSE [exc |-> "",
          d |-> DSet(new_attributes, PAGE_ID, Str(page_id_sub(DGet(new_attributes, PAGE_ID).v)))]

\* deepcopy(found_attributes): every value a list of its own
DeepCopy(found_attributes) ==
    [i \in 1..Len(found_attributes) |->
        [k |-> found_attributes[i].k, v |-> List(found_attributes[i].v)]]

\* normalize_attributes(attributes) under hash seed `seed`: exc names the
\* exception it raises ("" for none), d is the returned mapping.
normalize_attributes(attributes, seed) ==
    LET collected == CollectFound(attributes, 1, <<>>)
    IN IF collected.exc # "" THEN [exc |-> collected.exc, d |-> <<>>]
       ELSE LET with_uri == GeonamesStep(collected.d)
                valued == IF DHas(with_uri, VALUE_STRING)
                          THEN ValueStep(with_uri, <<VALUE_STRING, "identifier">>)
                          ELSE [exc |-> "", d |-> with_uri]
            IN IF valued.exc # "" THEN [exc |-> valued.exc, d |-> <<>>]
               ELSE LET looped == FoundLoop(valued.d, DeepCopy(valued.d), 1, seed)
                    IN IF looped.exc # "" THEN [exc |-> looped.exc, d |-> <<>>]
                       ELSE PageIdStep(TargetStep(valued.d, looped.d))

(***************************************************************************)
(* Tag names                                                               *)
(***************************************************************************)

\* The URI inside the braces of a qualified name is one element of the name:
\* the URIs of the source are lower case, hold no '}' and hold neither
\* 'other' nor 'wikipedialink', so that lower(), remove_namespace and the
\* substring tests of the source treat the element as they treat its
\* characters.

\* '{http:///de/tudarmstadt/ukp/dkpro/core/api/segmentation/type.ecore}Sentence'
SENTENCE_TAG ==
    <<"{", "http:///de/tudarmstadt/ukp/dkpro/core/api/segmentation/type.ecore", "}",
      "S","e","n","t","e","n","c","e">>

\* '{http:///org/texttechnologylab/annotation/ocr.ecore}OCRPage'
OCR_PAGE_TAG ==
    <<"{", "http:///org/texttechnologylab/annotation/ocr.ecore", "}",
      "O","C","R","P","a","g","e">>

\* '{http:///org/hucompute/textimager/uima/type/wikipedia.ecore}WikipediaLink'
WIKIPEDIA_LINK ==
    <<"{", "http:///org/hucompute/textimager/uima/type/wikipedia.ecore", "}",
      "W","i","k","i","p","e","d","i","a","L","i","n","k">>

\* '{http:///org/texttechnologylab/annotation/type.ecore}'
TYPE_NAMESPACE ==
    <<"{", "http:///org/texttechnologylab/annotation/type.ecore", "}">>

SENTENCE == <<"s","e","n","t","e","n","c","e">>
PAGE == <<"o","c","r","p","a","g","e">>
INCLUDE_ID_WITH_TAGS == {PAGE, SENTENCE}
ANNOTATION_IS_TAG_NAME == {PAGE, SENTENCE}
PRESERVE_ID_FROM_TAGS == {SENTENCE, PAGE}
EXCLUDE_TAG_NAMES == {<<"q","u","i","c","k","t","r","e","e","n","o","d","e">>}
NE_CLASS_PRIORITY ==
    << <<"P","l","a","n","t","_","F","l","o","r","a">>,
       <<"A","n","i","m","a","l","_","F","a","u","n","a">>,
       <<"T","a","x","o","n">> >>
WIKIPEDIA_TITLE == "wikipedia-title"

\* remove_namespace: re.sub('^.*?}', '', name) drops the text up to the first '}'.
remove_namespace(name) ==
    IF \E i \in 1..Len(name) : name[i] = "}"
    THEN LET first == CHOOSE i \in 1..Len(name) :
                          name[i] = "}" /\ \A j \in 1..(i - 1) : name[j] # "}"
         IN SubSeq(name, first + 1, Len(name))
    ELSE name

(***************************************************************************)
(* Annotation and AnnotationList                                           *)
(*                                                                         *)
(* An Annotation object is its index in the sequence `objects`; two        *)
(* Annotations are == only when they are the same object (the class        *)
(* defines __hash__ and no __eq__).  AnnotationList.annotations is a dict  *)
(* from the span key to a set of objects: a set is the sequence of its     *)
(* elements in iteration order.  The key '{begin}-{end}' is the pair       *)
(* <<begin, end>>: offsets are not negative, so split('-') and int give    *)
(* begin and end back.  An element's attrib holds, besides begin, end,     *)
(* sofa and xmi:id (common to every annotation element and no expectable   *)
(* attribute), the attributes listed in its attrib here.                   *)
(***************************************************************************)

\* Annotation.__init__
Annotation(id, begin, end, name, attributes) ==
    [id |-> id, begin |-> begin, end |-> end, name |-> name,
     attributes |-> attributes, self_closing |-> FALSE]

\* Annotation.has_same_position
has_same_position(a, b) == a.begin = b.begin /\ a.end = b.end

\* AnnotationList.add drops an element without begin or end (offsets = <<>>)
\* and one whose value is its own tag name.
add_accepts(entity) ==
    /\ entity.offsets # <<>>
    /\ ~(DHas(entity.attrib, VALUE_STRING)
         /\ DGet(entity.attrib, VALUE_STRING) = Str(remove_namespace(entity.tag)))

\* AnnotationList.add for an accepted element whose Annotation is object
\* `obj`; the object takes place `at` of the span set's iteration order.
add(annotations, entity, obj, at) ==
    LET key == <<entity.offsets[1], entity.offsets[2]>>
        old == IF DHas(annotations, key) THEN DGet(annotations, key) ELSE <<>>
    IN DSet(annotations, key, SubSeq(old, 1, at) \o <<obj>> \o SubSeq(old, at + 1, Len(old)))

\* itertools.combinations(range(n), 2) in its order
Combinations2(n) ==
    LET RECURSIVE Ordered(_, _)
        Ordered(i, j) ==
            IF i >= n THEN <<>>
            ELSE IF j > n THEN Ordered(i + 1, i + 2)
            ELSE <<(<<i, j>>)>> \o Ordered(i, j + 1)
    IN Ordered(1, 2)

\* A Python value handed to get_prioritized_element: a str or an Annotation.
PyStr(s) == [py |-> "str", v |-> s]
PyAnnotation(obj) == [py |-> "Annotation", v |-> obj]

\* x in NE_CLASS_PRIORITY: an Annotation is == to no str.
InPriority(x) ==
    x.py = "str" /\ \E i \in 1..Len(NE_CLASS_PRIORITY) : NE_CLASS_PRIORITY[i] = x.v

\* get_prioritized_element: '' unless both arguments are names of the list,
\* else the argument that contains the first name of the list.
RECURSIVE PrioritizedFrom(_, _, _)
PrioritizedFrom(i, elem1_name, elem2_name) ==
    IF i > Len(NE_CLASS_PRIORITY) THEN <<>>
    ELSE IF Contains(elem1_name.v, NE_CLASS_PRIORITY[i]) THEN elem1_name.v
    ELSE IF Contains(elem2_name.v, NE_CLASS_PRIORITY[i]) THEN elem2_name.v
    ELSE PrioritizedFrom(i + 1, elem1_name, elem2_name)

get_prioritized_element(elem1_name, elem2_name) ==
    IF ~InPriority(elem1_name) \/ ~InPriority(elem2_name) THEN <<>>
    ELSE PrioritizedFrom(1, elem1_name, elem2_name)

\* A pair loop that removes the first of every same-named pair, whatever the
\* attribute counts
RemoveFirstOfPair(objs, ann_set) ==
    LET pairs == Combinations2(Len(ann_set))
    IN {ann_set[pairs[i][1]] : i \in {j \in 1..Len(pairs) :
            objs[ann_set[pairs[j][1]]].name = objs[ann_set[pairs[j][2]]].name}}

\* Lines 573-586: the objects of one span set marked for removal; the pairs
\* come in the set's iteration order.
RemoveElementsOf(objs, ann_set) ==
    LET pairs == Combinations2(Len(ann_set))
        Marked(p) ==
            LET a1 == objs[ann_set[p[1]]]
                a2 == objs[ann_set[p[2]]]
                priorized_element_name ==
                    get_prioritized_element(PyAnnotation(ann_set[p[1]]),
                                            PyAnnotation(ann_set[p[2]]))
            IN IF ~has_same_position(a1, a2) THEN {}
               ELSE IF priorized_element_name # <<>>
               THEN (IF priorized_element_name = a1.name
                     THEN {ann_set[p[2]]} ELSE {ann_set[p[1]]})
               ELSE IF a1.name = a2.name
               THEN (IF Len(a1.attributes) > Len(a2.attributes)
                     THEN {ann_set[p[2]]} ELSE {ann_set[p[1]]})
               ELSE {}
    IN UNION {Marked(pairs[i]) : i \in 1..Len(pairs)}

\* A set difference that takes nothing out
WithoutNothing(l, gone) == l

\* l without the elements of the set gone, order kept
RECURSIVE Without(_, _)
Without(l, gone) ==
    IF l = <<>> THEN <<>>
    ELSE (IF l[1] \in gone THEN <<>> ELSE <<l[1]>>) \o Without(Tail(l), gone)

\* remove_double_annotations: every span set of two or more loses its marked
\* objects.
remove_double_annotations(objs, annotations) ==
    [i \in 1..Len(annotations) |->
        IF Len(annotations[i].v) < 2 THEN annotations[i]
        ELSE [k |-> annotations[i].k,
              v |-> Without(annotations[i].v, RemoveElementsOf(objs, annotations[i].v))]]

\* A sort key that knows the position only
sort_by_position_only(elem, current_position) == current_position * 1000

\* sort_by_priority_and_position, in thousandths: the float sums of the
\* source differ by at least 0.025 whenever they differ, so the order of the
\* keys is the order of these integers.
sort_by_priority_and_position(elem, current_position) ==
    LET tier == IF Contains(elem.name, SENTENCE_TAG) THEN 100
                ELSE IF Contains(elem.name, OCR_PAGE_TAG) THEN 200
                ELSE IF current_position = elem.end THEN 300
                ELSE 0
        closing == IF elem.end = current_position THEN 50 ELSE 0
        empty == IF elem.begin = elem.end THEN 25 ELSE 0
    IN current_position * 1000 - (tier + closing - empty)

\* sorted(v, key=...): stable, ascending
RECURSIVE SortedByKey(_, _, _)
SortedByKey(objs, v, k) ==
    IF v = <<>> THEN <<>>
    ELSE LET init == SortedByKey(objs, SubSeq(v, 1, Len(v) - 1), k)
             x == v[Len(v)]
             kx == sort_by_priority_and_position(objs[x], k)
             \* x goes after every element whose key is not greater
             n == Cardinality({i \in 1..Len(init) :
                      sort_by_priority_and_position(objs[init[i]], k) <= kx})
         IN SubSeq(init, 1, n) \o <<x>> \o SubSeq(init, n + 1, Len(init))

\* Lines 751-754: events[position] gets every span set once for each of the
\* two numbers of its key, so a zero-width span's set is listed twice.
RECURSIVE EventsOf(_, _)
EventsOf(annotations, position) ==
    IF annotations = <<>> THEN <<>>
    ELSE LET k == annotations[1].k
             v == annotations[1].v
         IN (IF k[1] = position THEN v ELSE <<>>)
            \o (IF k[2] = position THEN v ELSE <<>>)
            \o EventsOf(Tail(annotations), position)

EventPositions(annotations) ==
    {annotations[i].k[1] : i \in 1..Len(annotations)}
        \cup {annotations[i].k[2] : i \in 1..Len(annotations)}

\* AnnotationList.get_annotations: a dict from each begin or end position to
\* the sorted list of the objects there (here a function on the positions).
get_annotations(objs, annotations) ==
    [position \in EventPositions(annotations) |->
        SortedByKey(objs, EventsOf(annotations, position), position)]

(***************************************************************************)
(* Positional resolution                                                   *)
(***************************************************************************)

OTHER_SUBSTRING == <<"o","t","h","e","r">>
WIKIPEDIALINK_SUBSTRING == <<"w","i","k","i","p","e","d","i","a","l","i","n","k">>

\* Lines 448-451: the attributes of every listed object that begins at pos
\* are normalised, once for each time the object is listed.
RECURSIVE NormalizeRest(_, _, _, _)
NormalizedInto(objs, ann, n) ==
    IF n.exc # "" THEN [exc |-> n.exc, objs |-> objs]
    ELSE [exc |-> "", objs |-> [objs EXCEPT ![ann].attributes = n.d]]

RECURSIVE NormalizeStarts(_, _, _, _)
NormalizeStarts(objs, annotations, pos, seed) ==
    IF annotations = <<>> THEN [exc |-> "", objs |-> objs]
    ELSE NormalizeRest(
             IF objs[annotations[1]].begin # pos THEN [exc |-> "", objs |-> objs]
             ELSE NormalizedInto(objs, annotations[1],
                      normalize_attributes(objs[annotations[1]].attributes, seed)),
             Tail(annotations), pos, seed)

NormalizeRest(first, annotations, pos, seed) ==
    IF first.exc # "" THEN first
    ELSE NormalizeStarts(first.objs, annotations, pos, seed)

IsOther(a) == Contains(Lower(a.name), OTHER_SUBSTRING)
IsWikipediaLink(a) == Contains(Lower(a.name), WIKIPEDIALINK_SUBSTRING)

\* Lines 452-457
NoiseAndDonors(objs, annotations) ==
    {annotations[i] : i \in {j \in 1..Len(annotations) :
        IsOther(objs[annotations[j]]) \/ IsWikipediaLink(objs[annotations[j]])}}

RECURSIVE WikiElements(_, _)
WikiElements(objs, annotations) ==
    IF annotations = <<>> THEN <<>>
    ELSE (IF IsWikipediaLink(objs[annotations[1]]) THEN <<annotations[1]>> ELSE <<>>)
         \o WikiElements(objs, Tail(annotations))

\* Line 467-468: the condition under which b of the pair (a, b) is removed
SameRendering(a, b) ==
    LET non_intersecting == (DKeys(a.attributes) \ DKeys(b.attributes))
                              \cup (DKeys(b.attributes) \ DKeys(a.attributes))
    IN a.name = b.name
       /\ (DictEq(a.attributes, b.attributes) \/ WIKIPEDIA_TITLE \in non_intersecting)

\* Lines 466-471 over the pairs of list places: the objects removed as b, and
\* those marked self-closing.
PairRemoved(objs, annotations) ==
    {annotations[j] : j \in {j \in 1..Len(annotations) :
        \E i \in 1..(j - 1) : SameRendering(objs[annotations[i]], objs[annotations[j]])}}

\* A pair loop that never sets self_closing
NeverSelfClosing(objs, annotations) == {}

PairSelfClosing(objs, annotations) ==
    {annotations[j] : j \in {j \in 1..Len(annotations) :
        \E i \in 1..(j - 1) :
            /\ SameRendering(objs[annotations[i]], objs[annotations[j]])
            /\ objs[annotations[i]].begin = objs[annotations[i]].end
            /\ objs[annotations[i]].id = objs[annotations[j]].id}}

\* Lines 475-480 for one donor e
RECURSIVE Propagate(_, _, _, _)
Propagate(objs, events, e, annotations) ==
    IF annotations = <<>> THEN [exc |-> "", objs |-> objs]
    ELSE LET ann == annotations[1]
         IN IF remove_namespace(objs[ann].name) \in INCLUDE_ID_WITH_TAGS
            THEN Propagate(objs, events, e, Tail(annotations))
            ELSE LET titled == [objs EXCEPT ![ann].attributes =
                                   DSet(@, WIKIPEDIA_TITLE, DGet(objs[e].attributes, WIKIPEDIA_TITLE))]
                     end_list == IF objs[ann].end \in DOMAIN events
                                 THEN events[objs[ann].end] ELSE <<>>
                 IN IF objs[ann].end \notin DOMAIN events
                    THEN [exc |-> "KeyError", objs |-> titled]
                    ELSE IF ~\E i \in 1..Len(end_list) : end_list[i] = ann
                    THEN [exc |-> "ValueError", objs |-> titled]
                    \* parent is ann itself, and an Annotation is in no list of strs
                    ELSE Propagate(titled, events, e, Tail(annotations))

\* Lines 473-480
RECURSIVE PropagateTitles(_, _, _, _)
PropagateTitles(objs, events, wiki_elements, annotations) ==
    IF wiki_elements = <<>> THEN [exc |-> "", objs |-> objs]
    ELSE LET e == wiki_elements[1]
         IN IF ~DHas(objs[e].attributes, WIKIPEDIA_TITLE)
            THEN PropagateTitles(objs, events, Tail(wiki_elements), annotations)
            ELSE LET r == Propagate(objs, events, e, annotations)
                 IN IF r.exc # "" THEN r
                    ELSE PropagateTitles(r.objs, events, Tail(wiki_elements), annotations)

\* list.remove(x): the first x is taken out
ListRemove(l, x) ==
    LET i == CHOOSE i \in 1..Len(l) : l[i] = x /\ \A j \in 1..(i - 1) : l[j] # x
    IN SubSeq(l, 1, i - 1) \o SubSeq(l, i + 1, Len(l))

InList(l, x) == \E i \in 1..Len(l) : l[i] = x

\* Lines 482-487: every marked object leaves the list of pos once and, when
\* it ends later, the list of its end.
RECURSIVE RemoveMarked(_, _, _, _)
RemoveMarked(objs, events, pos, remove_elements) ==
    IF remove_elements = {} THEN [exc |-> "", events |-> events]
    ELSE LET e == CHOOSE x \in remove_elements : TRUE
             here == [events EXCEPT ![pos] = ListRemove(@, e)]
         IN IF ~InList(events[pos], e) THEN [exc |-> "ValueError", events |-> events]
            ELSE IF objs[e].end > pos
            THEN (IF ~InList(here[objs[e].end], e)
                  THEN [exc |-> "ValueError", events |-> here]
                  ELSE RemoveMarked(objs,
                           [here EXCEPT ![objs[e].end] = ListRemove(@, e)],
                           pos, remove_elements \ {e}))
            ELSE RemoveMarked(objs, here, pos, remove_elements \ {e})

\* What resolve_annotation leaves: exc is the exception it raised ("" for
\* none), out the returned list, objs and events the Annotations and the
\* position lists as it leaves them.
Resolved(exc, objs, events, out) ==
    [exc |-> exc, objs |-> objs, events |-> events, out |-> out]

\* Line 471: b.self_closing = True
MarkSelfClosing(objs, closing) ==
    [o \in DOMAIN objs |->
        IF o \in closing THEN [objs[o] EXCEPT !.self_closing = TRUE] ELSE objs[o]]

\* Lines 482-489
ResolveRemoved(pos, objs, removed) ==
    IF removed.exc # "" THEN Resolved(removed.exc, objs, removed.events, <<>>)
    ELSE Resolved("", objs, removed.events, removed.events[pos])

\* Lines 473-489
ResolveTitled(pos, events, remove_elements, titled) ==
    IF titled.exc # "" THEN Resolved(titled.exc, titled.objs, events, <<>>)
    ELSE ResolveRemoved(pos, titled.objs,
                        RemoveMarked(titled.objs, events, pos, remove_elements))

\* Lines 459-489
ResolveNormalized(pos, events, normalized) ==
    IF normalized.exc # "" THEN Resolved(normalized.exc, normalized.objs, events, <<>>)
    ELSE IF Len(events[pos]) = 1
    THEN Resolved("", normalized.objs, events,
                  IF NoiseAndDonors(normalized.objs, events[pos]) # {}
                  THEN <<>> ELSE events[pos])
    ELSE ResolveTitled(pos, events,
             NoiseAndDonors(normalized.objs, events[pos])
                 \cup PairRemoved(normalized.objs, events[pos]),
             PropagateTitles(
                 MarkSelfClosing(normalized.objs,
                                 PairSelfClosing(normalized.objs, events[pos])),
                 events, WikiElements(normalized.objs, events[pos]), events[pos]))

\* resolve_annotation(pos, annotation_list)
resolve_annotation(pos, objs, events, seed) ==
    IF events[pos] = <<>> THEN Resolved("", objs, events, <<>>)
    ELSE ResolveNormalized(pos, events, NormalizeStarts(objs, events[pos], pos, seed))

(***************************************************************************)
(* Rendering.  The output string is a sequence of pieces; a piece holds    *)
(* its text s and, for the properties, what emitted it: kind "start" or    *)
(* "end" (a tag of object ann, emitted at position pos), "char" (the       *)
(* escaped character of position pos), "list" (the text of an empty list)  *)
(* or "page" (the closing page tag appended after the scan).  An attribute *)
(* key is one element of a tag's text; it holds none of '<', '>', '/'.     *)
(***************************************************************************)

Piece(kind, ann, pos, text) == [kind |-> kind, ann |-> ann, pos |-> pos, s |-> text]

\* md5(annotation.id.encode()).hexdigest()[:10]: one opaque element that
\* names the digest, followed by the id it is the digest of.
Md5Hex10(id) == <<"md5:">> \o id

\* str(value) of an attribute value inside the f-string
Rendered(value) == IF value.t = "str" THEN value.v ELSE <<"repr:">> \o value.v

\* generate_opening_tag_prefix
generate_opening_tag_prefix(annotation) ==
    LET tag == IF annotation.name \in ANNOTATION_IS_TAG_NAME
               THEN <<"<">> \o annotation.name ELSE <<"<","e","m">>
    IN IF ~DHas(annotation.attributes, CLASS_STRING)
       THEN tag \o <<" ","c","l","a","s","s"," ","=","\"">> \o annotation.name \o <<"\"">>
       ELSE tag

RECURSIVE AttributeText(_)
AttributeText(attributes) ==
    IF attributes = <<>> THEN <<>>
    ELSE <<" ", attributes[1].k, "=", "\"">> \o Rendered(attributes[1].v) \o <<"\"">>
         \o AttributeText(Tail(attributes))

\* start_tag
start_tag(annotation) ==
    LET annotation_id == IF annotation.name \in PRESERVE_ID_FROM_TAGS
                         THEN annotation.id ELSE Md5Hex10(annotation.id)
    IN generate_opening_tag_prefix(annotation)
       \o <<" ","i","d","=","\"">> \o annotation_id \o <<"\"">>
       \o AttributeText(annotation.attributes)
       \o (IF annotation.self_closing THEN <<"/">> ELSE <<>>)
       \o <<">">>

\* end_tag
end_tag(annotation) ==
    IF annotation.name \notin INCLUDE_ID_WITH_TAGS THEN <<"<","/","e","m",">">>
    ELSE <<"<","/">> \o annotation.name \o <<">">>

\* The name create_tag leaves on the annotation
RenderedName(name) == Lower(remove_namespace(name))

\* A create_tag that answers every position with the start tag
create_tag_start_only(pos, obj, annotation) ==
    IF annotation.name \in EXCLUDE_TAG_NAMES THEN Piece("list", obj, pos, <<"[","]">>)
    ELSE Piece("start", obj, pos, start_tag(annotation))

\* create_tag(pos, annotation) for the annotation as renamed: the piece that
\* the f-string of annotate_text appends (an excluded name returns [], whose
\* text is '[]').
create_tag(pos, obj, annotation) ==
    IF annotation.name \in EXCLUDE_TAG_NAMES THEN Piece("list", obj, pos, <<"[","]">>)
    ELSE IF annotation.begin = pos THEN Piece("start", obj, pos, start_tag(annotation))
    ELSE Piece("end", obj, pos, end_tag(annotation))

\* html.escape(char)
html_escape(char) ==
    CASE char = "&" -> <<"&","a","m","p",";">>
      [] char = "<" -> <<"&","l","t",";">>
      [] char = ">" -> <<"&","g","t",";">>
      [] char = "\"" -> <<"&","q","u","o","t",";">>
      [] char = "'" -> <<"&","#","x","2","7",";">>
      [] OTHER -> <<char>>

\* Lines 429-431: a tag for every resolved object, each renamed as it is
\* rendered.
RECURSIVE CreateTags(_, _, _, _)
CreateTags(objs, out, pos, pieces) ==
    IF out = <<>> THEN [objs |-> objs, pieces |-> pieces]
    ELSE LET t == out[1]
             renamed == [objs EXCEPT ![t].name = RenderedName(@)]
         IN CreateTags(renamed, Tail(out), pos,
                       Append(pieces, create_tag(pos, t, renamed[t])))

\* The string the pieces spell
RECURSIVE Flatten(_)
Flatten(pieces) ==
    IF pieces = <<>> THEN <<>> ELSE pieces[1].s \o Flatten(Tail(pieces))

Whitespace == {" ", "\t", "\n", "\r"}

\* str.strip()
RECURSIVE Strip(_)
Strip(s) ==
    IF s = <<>> THEN s
    ELSE IF s[1] \in Whitespace THEN Strip(Tail(s))
    ELSE IF s[Len(s)] \in Whitespace THEN Strip(SubSeq(s, 1, Len(s) - 1))
    ELSE s

EndsWith(s, suffix) ==
    Len(s) >= Len(suffix) /\ SubSeq(s, Len(s) - Len(suffix) + 1, Len(s)) = suffix

OPEN_OCRPAGE == <<"<","o","c","r","p","a","g","e",">">>
CLOSING_OCRPAGE_TAG == <<"<","/","o","c","r","p","a","g","e",">">>

\* close_open_ocrpage_tag
close_open_ocrpage_tag(pieces, length) ==
    LET text == Flatten(pieces)
    IN IF Contains(text, OPEN_OCRPAGE) /\ ~EndsWith(Strip(text), CLOSING_OCRPAGE_TAG)
       THEN Append(pieces, Piece("page", 0, length, CLOSING_OCRPAGE_TAG))
       ELSE pieces

(***************************************************************************)
(* The documents of the model                                              *)
(***************************************************************************)

\* Bounds
TextLen == 3
MaxAnnotations == 2
MaxSofa == 1
MaxComments == 0
MaxHashSeed == 1

TaxonTag == TYPE_NAMESPACE \o <<"T","a","x","o","n">>
PlantTag == TYPE_NAMESPACE \o <<"P","l","a","n","t","_","F","l","o","r","a">>
OtherTag == TYPE_NAMESPACE \o <<"O","t","h","e","r">>
QuickTreeNodeTag == TYPE_NAMESPACE \o <<"Q","u","i","c","k","T","r","e","e","N","o","d","e">>

\* Tags of named entities, and tags that carry no attribute of their own in
\* the documents of the model: structure, noise and donors, excluded names.
EntityTags == {TaxonTag, PlantTag}
BareTags == {SENTENCE_TAG, OCR_PAGE_TAG, WIKIPEDIA_LINK, OtherTag, QuickTreeNodeTag}

\* 'http://wikidata.org/Q1'
WikidataValue ==
    <<"h","t","t","p",":","/","/","w","i","k","i","d","a","t","a",".","o","r","g","/","Q","1">>

\* 'http://obolibrary.org/P1'
PatoValue ==
    <<"h","t","t","p",":","/","/","o","b","o","l","i","b","r","a","r","y",".","o","r","g","/","P","1">>

NoAttributes == <<>>
ValueAttribute == <<[k |-> VALUE_STRING, v |-> Str(WikidataValue)]>>

AttribPool == {NoAttributes, ValueAttribute}

Spans == {sp \in (0..TextLen) \X (0..TextLen) : sp[1] <= sp[2]}

\* The sofaString of the document: TextLen characters, among them the ones
\* html.escape rewrites.
TextAlphabet == <<"a", "<", "b", "&">>
SofaString == [i \in 1..TextLen |-> TextAlphabet[((i - 1) % Len(TextAlphabet)) + 1]]

\* The elements a document may hold in the model: named entities of every
\* span with and without a value, the other tags on every span, an element of
\* the type namespace without offsets, and an element whose value is its own
\* tag name.
Element(tag, offsets, attrib) == [tag |-> tag, offsets |-> offsets, attrib |-> attrib]

Elements ==
    {Element(tag, sp, attrib) : tag \in EntityTags, sp \in Spans, attrib \in AttribPool}
        \cup {Element(tag, sp, NoAttributes) : tag \in BareTags, sp \in Spans}
        \cup {Element(TaxonTag, <<>>, NoAttributes)}
        \cup {Element(TaxonTag, <<0, 1>>,
                      <<[k |-> VALUE_STRING, v |-> Str(remove_namespace(TaxonTag))]>>)}

\* The AnnotationComment elements of a document: reference, key and value.
PATO_URI_KEY == <<"P","A","T","O","_","u","r","i">>
OtherCommentKey == <<"n","o","t","e">>

CommentRecords ==
    {[reference |-> <<ToString(n)>>, key |-> key, value |-> PatoValue] :
        n \in 1..MaxAnnotations, key \in {PATO_URI_KEY, OtherCommentKey}}

RECURSIVE SeqsUpTo(_, _)
SeqsUpTo(S, n) ==
    IF n = 0 THEN {<<>>}
    ELSE LET shorter == SeqsUpTo(S, n - 1)
         IN shorter \cup {Append(q, x) : q \in {r \in shorter : Len(r) = n - 1}, x \in S}

CommentPasses == SeqsUpTo(CommentRecords, MaxComments)

(***************************************************************************)
(* State                                                                   *)
(***************************************************************************)

VARIABLES
    pc,           \* where generate_pseudo_tei_from_file stands
    hashseed,     \* the hash seed of the process
    comments,     \* the AnnotationComment elements of the document, in order
    text,         \* the list of sofaStrings collected by process_annotation
    objects,      \* the Annotation objects, in the order of their creation
    annotations,  \* AnnotationList.annotations
    parse_error,  \* whether fast_iter caught an XMLSyntaxError in the first pass
    events,       \* the dict of get_annotations that annotate_text walks
    pos,          \* the position annotate_text is at
    returned,     \* the lists resolve_annotation returned, by position
    full_text,    \* the pieces of the output so far
    result,       \* what generate_pseudo_tei_from_file returned
    raw_attributes,             \* the attribute mapping given to normalize_attributes
    normalized,                 \* what normalize_attributes made of raw_attributes
    renormalized,               \* what it made of its own result
    named_entities,             \* the first argument of ProximityReasoner.evaluate
    comparison_named_entities,  \* its second argument
    proximity_results           \* what evaluate returned

norm_vars == <<raw_attributes, normalized, renormalized>>
prox_vars == <<named_entities, comparison_named_entities, proximity_results>>
side_vars == <<norm_vars, prox_vars>>

vars == <<pc, hashseed, comments, text, objects, annotations, parse_error, events, pos,
          returned, full_text, result, norm_vars, prox_vars>>

\* The attribute values of Elements hold one value each, so that no set of
\* found values has two orders and the hash seed does not show in a document's
\* output.
\* What a call leaves: nothing yet, None, a value, or a raised exception
Pending == [kind |-> "pending", value |-> <<>>]
None == [kind |-> "None", value |-> <<>>]
Returned(value) == [kind |-> "str", value |-> value]
Raised(exc) == [kind |-> "raise", value |-> exc]

NoCall == [exc |-> "", d |-> <<>>]

\* No document has been opened
NoDocument ==
    /\ comments = <<>>
    /\ text = <<>>
    /\ objects = <<>>
    /\ annotations = <<>>
    /\ parse_error = FALSE
    /\ events = <<>>
    /\ pos = 0
    /\ returned = <<>>
    /\ full_text = <<>>
    /\ result = Pending

\* normalize_attributes has not been called on its own
NoNormalization ==
    /\ raw_attributes = <<>>
    /\ normalized = NoCall
    /\ renormalized = NoCall

\* ProximityReasoner.evaluate has not been called
NoEvaluation ==
    /\ named_entities = <<>>
    /\ comparison_named_entities = None
    /\ proximity_results = Pending

Init ==
    /\ pc = "scan"
    /\ hashseed = 0
    /\ comments \in CommentPasses
    /\ text = <<>>
    /\ objects = <<>>
    /\ annotations = <<>>
    /\ parse_error = FALSE
    /\ events = <<>>
    /\ pos = 0
    /\ returned = <<>>
    /\ full_text = <<>>
    /\ result = Pending
    /\ NoNormalization
    /\ NoEvaluation

scan_vars == <<side_vars, hashseed, comments, events, pos, returned, full_text, result>>

\* process_annotation for the element that carries the sofaString
ProcessSofa ==
    /\ pc = "scan"
    /\ Len(text) < MaxSofa
    /\ text' = Append(text, SofaString)
    /\ UNCHANGED <<pc, objects, annotations, parse_error>>
    /\ UNCHANGED scan_vars

\* AnnotationList.add(entity): the new Annotation takes any place in the
\* iteration order of its span's set; the xmi:id of an element is its number
\* among the created Annotations.
AddEntity(entity) ==
    IF add_accepts(entity)
    THEN LET obj == Len(objects) + 1
             key == <<entity.offsets[1], entity.offsets[2]>>
             size == IF DHas(annotations, key) THEN Len(DGet(annotations, key)) ELSE 0
         IN \E at \in 0..size :
              /\ objects' = Append(objects,
                     Annotation(<<ToString(obj)>>, entity.offsets[1], entity.offsets[2],
                                entity.tag, entity.attrib))
              /\ annotations' = add(annotations, entity, obj, at)
    ELSE UNCHANGED <<objects, annotations>>

\* process_annotation for any other matched element: AnnotationList.add
ProcessAnnotation ==
    /\ pc = "scan"
    /\ Len(objects) < MaxAnnotations
    /\ \E entity \in Elements : AddEntity(entity)
    /\ UNCHANGED <<pc, text, parse_error>>
    /\ UNCHANGED scan_vars

\* fast_iter: the parser raises XMLSyntaxError, which is caught and logged;
\* the pass ends with what was collected.
ParseError ==
    /\ pc = "scan"
    /\ pc' = "scanned"
    /\ parse_error' = TRUE
    /\ UNCHANGED <<text, objects, annotations>>
    /\ UNCHANGED scan_vars

\* fast_iter: the document ends
EndOfDocument ==
    /\ pc = "scan"
    /\ pc' = "scanned"
    /\ UNCHANGED <<text, objects, annotations, parse_error>>
    /\ UNCHANGED scan_vars

\* Lines 236-238: `not annotation_list` is len(annotation_list.annotations) == 0
ReturnNoContent ==
    /\ pc = "scanned"
    /\ Len(annotations) = 0
    /\ pc' = "done"
    /\ result' = None
    /\ UNCHANGED <<side_vars, hashseed, comments, text, objects, annotations, parse_error, events,
                   pos, returned, full_text>>

\* A return of the empty string where text[0] raises IndexError
ReturnEmptyText ==
    /\ pc = "scanned"
    /\ Len(annotations) # 0
    /\ text = <<>>
    /\ pc' = "done"
    /\ result' = Returned(<<>>)
    /\ UNCHANGED <<side_vars, hashseed, comments, text, objects, annotations, parse_error, events,
                   pos, returned, full_text>>

\* Lines 240-244: text[0] raises IndexError
ReturnNoText ==
    /\ pc = "scanned"
    /\ Len(annotations) # 0
    /\ text = <<>>
    /\ pc' = "done"
    /\ result' = None
    /\ UNCHANGED <<side_vars, hashseed, comments, text, objects, annotations, parse_error, events,
                   pos, returned, full_text>>

\* enrich_annotated_text_with_annotation_comments: annotation_comments keeps
\* the last comment of each reference; an annotation whose comment has the
\* PATO key gets the comment's value.
RECURSIVE LastCommentOf(_, _)
LastCommentOf(delivered, id) ==
    IF delivered = <<>> THEN <<>>
    ELSE IF delivered[Len(delivered)].reference = id THEN <<delivered[Len(delivered)]>>
    ELSE LastCommentOf(SubSeq(delivered, 1, Len(delivered) - 1), id)

enrich_annotated_text_with_annotation_comments(objs, delivered) ==
    [o \in 1..Len(objs) |->
        LET corresponding_comment_data == LastCommentOf(delivered, objs[o].id)
        IN IF corresponding_comment_data # <<>>
              /\ corresponding_comment_data[1].key = PATO_URI_KEY
           THEN [objs[o] EXCEPT !.attributes =
                    DSet(@, VALUE_STRING, Str(corresponding_comment_data[1].value))]
           ELSE objs[o]]

\* The comments the second pass of fast_iter delivers: all of them, or those
\* before the place where the parser raises again.
Delivered ==
    {SubSeq(comments, 1, n) :
        n \in IF parse_error THEN 0..Len(comments) ELSE {Len(comments)}}

\* Lines 246-251 up to the loop of annotate_text: the comment pass delivers
\* the comments of the document, the annotations are enriched, the doubles
\* removed and the position lists built.
Prepared(enriched, single) ==
    /\ objects' = enriched
    /\ annotations' = single
    /\ events' = get_annotations(enriched, single)

PrepareEnriched(enriched) ==
    Prepared(enriched, remove_double_annotations(enriched, annotations))

Prepare ==
    /\ pc = "scanned"
    /\ Len(annotations) # 0
    /\ text # <<>>
    /\ \E delivered \in Delivered :
         PrepareEnriched(enrich_annotated_text_with_annotation_comments(objects, delivered))
    /\ pc' = "render"
    /\ pos' = 0
    /\ full_text' = <<>>
    /\ UNCHANGED <<side_vars, hashseed, comments, text, parse_error, returned, result>>

\* Lines 429-433 for what resolve_annotation returned
RenderResolved(resolved, tagged) ==
    /\ objects' = tagged.objs
    /\ events' = resolved.events
    /\ returned' = Append(returned, resolved.out)
    /\ full_text' = Append(tagged.pieces,
                           Piece("char", 0, pos, html_escape(text[1][pos + 1])))
    /\ pos' = pos + 1
    /\ UNCHANGED <<pc, result>>

RenderOrRaise(resolved) ==
    IF resolved.exc # ""
    THEN /\ pc' = "done"
         /\ result' = Raised(resolved.exc)
         /\ UNCHANGED <<objects, events, pos, returned, full_text>>
    ELSE RenderResolved(resolved, CreateTags(resolved.objs, resolved.out, pos, full_text))

\* One round of the loop of annotate_text
RenderPosition ==
    /\ pc = "render"
    /\ pos < Len(text[1])
    /\ RenderOrRaise(IF pos \in DOMAIN events
                     THEN resolve_annotation(pos, objects, events, hashseed)
                     ELSE Resolved("", objects, events, <<>>))
    /\ UNCHANGED <<side_vars, hashseed, comments, text, annotations, parse_error>>

\* Lines 435-437
ReturnText ==
    /\ pc = "render"
    /\ pos = Len(text[1])
    /\ pc' = "done"
    /\ result' = Returned(close_open_ocrpage_tag(full_text, pos))
    /\ UNCHANGED <<side_vars, hashseed, comments, text, objects, annotations, parse_error, events,
                   pos, returned, full_text>>

Next ==
    \/ ProcessSofa
    \/ ProcessAnnotation
    \/ ParseError
    \/ EndOfDocument
    \/ ReturnNoContent
    \/ ReturnNoText
    \/ Prepare
    \/ RenderPosition
    \/ ReturnText

Spec == Init /\ [][Next]_vars

(***************************************************************************)
(* remove_double_annotations on its own: span sets of up to MaxShared      *)
(* annotations                                                             *)
(***************************************************************************)

MaxShared == 3

TargetAttribute == <<[k |-> "Target", v |-> Str(<<"F","a","g","u","s">>)]>>
TwoAttributes == ValueAttribute \o TargetAttribute

SharedSpans == {<<0, 1>>, <<0, 2>>}

SharedElements ==
    {Element(tag, sp, attrib) :
        tag \in EntityTags, sp \in SharedSpans,
        attrib \in {NoAttributes, ValueAttribute, TargetAttribute, TwoAttributes}}

InitDedup ==
    /\ pc = "collect"
    /\ hashseed = 0
    /\ NoDocument
    /\ NoNormalization
    /\ NoEvaluation

\* AnnotationList.add for one more element of the shared spans
CollectShared ==
    /\ pc = "collect"
    /\ Len(objects) < MaxShared
    /\ \E entity \in SharedElements : AddEntity(entity)
    /\ UNCHANGED <<pc, text, parse_error>>
    /\ UNCHANGED scan_vars

\* remove_double_annotations(annotation_list)
RemoveDoubles ==
    /\ pc = "collect"
    /\ pc' = "single"
    /\ annotations' = remove_double_annotations(objects, annotations)
    /\ UNCHANGED <<text, objects, parse_error>>
    /\ UNCHANGED scan_vars

NextDedup ==
    \/ CollectShared
    \/ RemoveDoubles

SpecDedup == InitDedup /\ [][NextDedup]_vars

(***************************************************************************)
(* normalize_attributes on its own, and on its own result (as              *)
(* resolve_annotation calls it for an annotation listed twice)             *)
(***************************************************************************)

MaxRawAttributes == 2

RawKeys == {VALUE_STRING, "identifier", "Target", PAGE_ID, "WikiData", "id"}

\* 'Flair;score=0.91234'
FlairScore ==
    <<"F","l","a","i","r",";","s","c","o","r","e","=","0",".","9","1","2","3","4">>

\* 'http://wikidata.org/Q1;http://wikidata.org/Q2'
TwoWikidataValues ==
    WikidataValue \o <<";">>
        \o <<"h","t","t","p",":","/","/","w","i","k","i","d","a","t","a",".","o","r","g","/","Q","2">>

RawValues ==
    {WikidataValue, TwoWikidataValues, FlairScore,
     <<"Q","1">>, <<"p","_","1","2",".","x","m","l">>, <<"L","O","C">>,
     <<"s","c","o","r","e","=","a","b","c",";","x">>, <<"F","a","g","u","s">>}

RawEntries == {[k |-> k, v |-> Str(v)] : k \in RawKeys, v \in RawValues}

\* The mappings of up to MaxRawAttributes entries with different keys
RawMappings ==
    {m \in SeqsUpTo(RawEntries, MaxRawAttributes) :
        /\ m # <<>>
        /\ \A i, j \in 1..Len(m) : i # j => m[i].k # m[j].k}

InitNorm ==
    /\ pc = "normalize"
    /\ hashseed \in 0..MaxHashSeed
    /\ NoDocument
    /\ raw_attributes \in RawMappings
    /\ normalized = NoCall
    /\ renormalized = NoCall
    /\ NoEvaluation

pipeline_vars == <<hashseed, comments, text, objects, annotations, parse_error, events,
                   pos, returned, full_text, result>>

\* normalize_attributes(raw_attributes)
Normalize ==
    /\ pc = "normalize"
    /\ pc' = "normalized"
    /\ normalized' = normalize_attributes(raw_attributes, hashseed)
    /\ UNCHANGED <<raw_attributes, renormalized, prox_vars, pipeline_vars>>

\* normalize_attributes on the mapping it returned
NormalizeAgain ==
    /\ pc = "normalized"
    /\ normalized.exc = ""
    /\ pc' = "renormalized"
    /\ renormalized' = normalize_attributes(normalized.d, hashseed)
    /\ UNCHANGED <<raw_attributes, normalized, prox_vars, pipeline_vars>>

NextNorm ==
    \/ Normalize
    \/ NormalizeAgain

SpecNorm == InitNorm /\ [][NextNorm]_vars

(***************************************************************************)
(* ProximityReasoner.evaluate.  A NamedEntity is its id, begin and end; a  *)
(* ProximityResult holds its two annotations and, for proximity_rate, the  *)
(* distance the rate is computed from.  An argument is None or a list.     *)
(***************************************************************************)

MaxEntities == 3

NamedEntity(id, begin, end) == [id |-> id, begin |-> begin, end |-> end]

NamedEntities ==
    {NamedEntity("abc", 0, 1), NamedEntity("def", 2, 3), NamedEntity("ghi", 2, 4),
     NamedEntity("jkl", 5, 6)}

ListOf(l) == [kind |-> "list", value |-> l]

EntityLists == {ListOf(l) : l \in SeqsUpTo(NamedEntities, MaxEntities)}

\* itertools.combinations(list1, 2), as pairs of elements
combinations(list1) ==
    LET places == Combinations2(Len(list1))
    IN [k \in 1..Len(places) |-> <<list1[places[k][1]], list1[places[k][2]]>>]

\* A product that runs through list1 fastest
product_first_fastest(list1, list2) ==
    [k \in 1..(Len(list1) * Len(list2)) |->
        <<list1[((k - 1) % Len(list1)) + 1], list2[((k - 1) \div Len(list1)) + 1]>>]

\* itertools.product(list1, list2)
product(list1, list2) ==
    [k \in 1..(Len(list1) * Len(list2)) |->
        <<list1[((k - 1) \div Len(list2)) + 1], list2[((k - 1) % Len(list2)) + 1]>>]

\* get_combinations(list1, list2)
get_combinations(list1, list2) ==
    IF list1 = None \/ list1.value = <<>> THEN Raised("StopIteration")
    ELSE IF list2 # None /\ list2.value = <<>> THEN Raised("ValueError")
    ELSE IF list2 = None THEN ListOf(combinations(list1.value))
    ELSE ListOf(product(list1.value, list2.value))

\* create_proximity_result: sorted() is stable, so the pair keeps its order
\* when the begins are equal.
create_proximity_result(nes_to_compare) ==
    LET first_ne == IF nes_to_compare[2].begin < nes_to_compare[1].begin
                    THEN nes_to_compare[2] ELSE nes_to_compare[1]
        second_ne == IF nes_to_compare[2].begin < nes_to_compare[1].begin
                     THEN nes_to_compare[1] ELSE nes_to_compare[2]
    IN [annotations |-> <<first_ne, second_ne>>,
        named_entity_proximity |-> second_ne.begin - first_ne.end]

\* ProximityReasoner.evaluate
evaluate(list1, list2) ==
    LET pairs == get_combinations(list1, list2)
    IN IF pairs.kind = "raise" THEN pairs
       ELSE ListOf([k \in 1..Len(pairs.value) |-> create_proximity_result(pairs.value[k])])

InitProx ==
    /\ pc = "evaluate"
    /\ hashseed = 0
    /\ NoDocument
    /\ NoNormalization
    /\ named_entities \in EntityLists \cup {None}
    /\ comparison_named_entities \in EntityLists \cup {None}
    /\ proximity_results = Pending

Evaluate ==
    /\ pc = "evaluate"
    /\ pc' = "evaluated"
    /\ proximity_results' = evaluate(named_entities, comparison_named_entities)
    /\ UNCHANGED <<named_entities, comparison_named_entities, norm_vars, pipeline_vars>>

NextProx == Evaluate

SpecProx == InitProx /\ [][NextProx]_vars

(***************************************************************************)
(* enrich_annotated_text_with_annotation_comments on its own: up to        *)
(* MaxEnriched annotations and up to MaxEnrichComments comment records     *)
(***************************************************************************)

MaxEnriched == 2
MaxEnrichComments == 2

\* 'http://obolibrary.org/P2'
SecondPatoValue ==
    <<"h","t","t","p",":","/","/","o","b","o","l","i","b","r","a","r","y",".","o","r","g","/","P","2">>

EnrichRecords ==
    {[reference |-> <<ToString(n)>>, key |-> key, value |-> value] :
        n \in 1..MaxEnriched, key \in {PATO_URI_KEY, OtherCommentKey},
        value \in {PatoValue, SecondPatoValue}}

EnrichElements ==
    {Element(TaxonTag, sp, attrib) : sp \in {<<0, 1>>, <<1, 2>>}, attrib \in AttribPool}

InitEnrich ==
    /\ pc = "annotated"
    /\ hashseed = 0
    /\ comments \in SeqsUpTo(EnrichRecords, MaxEnrichComments)
    /\ text = <<>>
    /\ objects = <<>>
    /\ annotations = <<>>
    /\ parse_error = FALSE
    /\ events = <<>>
    /\ pos = 0
    /\ returned = <<>>
    /\ full_text = <<>>
    /\ result = Pending
    /\ NoNormalization
    /\ NoEvaluation

\* AnnotationList.add for one more annotation
CollectAnnotated ==
    /\ pc = "annotated"
    /\ Len(objects) < MaxEnriched
    /\ \E entity \in EnrichElements : AddEntity(entity)
    /\ UNCHANGED <<pc, text, parse_error>>
    /\ UNCHANGED scan_vars

\* enrich_annotated_text_with_annotation_comments(annotation_list, file_object)
\* on a well-formed document
Enrich ==
    /\ pc = "annotated"
    /\ pc' = "enriched"
    /\ objects' = enrich_annotated_text_with_annotation_comments(objects, comments)
    /\ UNCHANGED <<text, annotations, parse_error>>
    /\ UNCHANGED scan_vars

NextEnrich ==
    \/ CollectAnnotated
    \/ Enrich

SpecEnrich == InitEnrich /\ [][NextEnrich]_vars

(***************************************************************************)
(* Properties of the output of annotate_text                               *)
(***************************************************************************)

\* annotate_text returned a string
OutputReturned == pc = "done" /\ result.kind = "str"

\* The places of the output that hold a tag of kind `kind` of object o
TagPlaces(o, kind) ==
    {i \in 1..Len(result.value) : result.value[i].kind = kind /\ result.value[i].ann = o}

\* The places of the output that hold anything emitted for object o
PlacesOf(o) == {i \in 1..Len(result.value) : result.value[i].ann = o}

\* The number of text characters the output holds before place i
CharsBefore(i) ==
    Cardinality({j \in 1..(i - 1) : result.value[j].kind = "char"})

\* The tag of place i is self-closed: its text ends with '/>'
SelfClosedAt(i) ==
    LET tag == result.value[i].s
    IN Len(tag) >= 2 /\ tag[Len(tag)] = ">" /\ tag[Len(tag) - 1] = "/"

\* How often x is listed in l
Count(l, x) == Cardinality({i \in 1..Len(l) : l[i] = x})

\* resolve_annotation returned object o at position p
ReturnedAt(o, p) == p + 1 <= Len(returned) /\ InList(returned[p + 1], o)

\* Object o survived de-duplication and positional resolution: the resolver
\* returned it at its begin and at its end.
Survives(o) == ReturnedAt(o, objects[o].begin) /\ ReturnedAt(o, objects[o].end)

\* C1: in the string annotate_text returns, every start tag of an annotation
\* that is not self-closed is followed by exactly one end tag of that
\* annotation.
C1_EveryStartTagClosedOnce ==
    OutputReturned =>
        \A i \in 1..Len(result.value) :
            (result.value[i].kind = "start" /\ ~SelfClosedAt(i)) =>
                Cardinality({j \in TagPlaces(result.value[i].ann, "end") : j > i}) = 1

\* An annotation of a span inside the text
Inside(o) == objects[o].begin < objects[o].end /\ objects[o].end < Len(text[1])

\* Exactly one start tag of o, after begin characters, exactly one end tag,
\* after end characters, and nothing else emitted for o
EnclosesItsSpan(o) ==
    /\ Cardinality(TagPlaces(o, "start")) = 1
    /\ Cardinality(TagPlaces(o, "end")) = 1
    /\ PlacesOf(o) = TagPlaces(o, "start") \cup TagPlaces(o, "end")
    /\ \A i \in TagPlaces(o, "start") :
         CharsBefore(i) = objects[o].begin /\ result.value[i].pos = objects[o].begin
    /\ \A j \in TagPlaces(o, "end") :
         CharsBefore(j) = objects[o].end /\ result.value[j].pos = objects[o].end

SameNamed(o) ==
    {p \in 1..Len(objects) :
        has_same_position(objects[p], objects[o]) /\ objects[p].name = objects[o].name}

\* Those of them whose attributes are equal to the attributes of o
EqualGroup(o) == {p \in SameNamed(o) : DictEq(objects[p].attributes, objects[o].attributes)}

\* The members of o's group that are left in the set of their span
LeftOf(o) ==
    {p \in EqualGroup(o) :
        InList(DGet(annotations, <<objects[o].begin, objects[o].end>>), p)}

\* C3 as stated: of two or more annotations that share span, name and
\* attributes, remove_double_annotations leaves exactly one in the span's set.
C3_ExactlyOneOfEqualGroup ==
    pc = "single" =>
        \A o \in 1..Len(objects) :
            Cardinality(EqualGroup(o)) >= 2 => Cardinality(LeftOf(o)) = 1

\* C3, amended: of two or more annotations that share span, name and
\* attributes, remove_double_annotations never leaves more than one; it leaves
\* exactly one when every other annotation of that name on the span has fewer
\* attributes, and none when one of them has more.
C3_AtMostOneOfEqualGroup ==
    pc = "single" =>
        \A o \in 1..Len(objects) :
            Cardinality(EqualGroup(o)) >= 2 =>
                /\ Cardinality(LeftOf(o)) <= 1
                /\ (\A p \in SameNamed(o) \ EqualGroup(o) :
                        Len(objects[p].attributes) < Len(objects[o].attributes))
                     => Cardinality(LeftOf(o)) = 1
                /\ (\E p \in SameNamed(o) :
                        Len(objects[p].attributes) > Len(objects[o].attributes))
                     => Cardinality(LeftOf(o)) = 0

C3_Witness ==
    /\ pc = "single"
    /\ \E o \in 1..Len(objects) :
         /\ Cardinality(EqualGroup(o)) >= 2
         /\ SameNamed(o) # EqualGroup(o)
         /\ Cardinality(LeftOf(o)) = 1

(***************************************************************************)
(* Zero-width annotations                                                  *)
(***************************************************************************)

\* A start or an end tag of o is in the output
HasTag(o) == TagPlaces(o, "start") \cup TagPlaces(o, "end") # {}

ZeroWidth(o) == objects[o].begin = objects[o].end /\ objects[o].end < Len(text[1])

\* C4: every rendered zero-width annotation is returned by resolve_annotation
\* exactly once, at its position, with self_closing true; the output holds one
\* self-closed start tag and no end tag for it.
C4_ZeroWidthSelfClosedOnce ==
    OutputReturned =>
        \A o \in 1..Len(objects) :
            (ZeroWidth(o) /\ HasTag(o)) =>
                /\ \A p \in 0..(Len(returned) - 1) :
                     Count(returned[p + 1], o) = IF p = objects[o].begin THEN 1 ELSE 0
                /\ objects[o].self_closing
                /\ Cardinality(TagPlaces(o, "start")) = 1
                /\ \A i \in TagPlaces(o, "start") : SelfClosedAt(i)
                /\ TagPlaces(o, "end") = {}

C4_Witness ==
    /\ OutputReturned
    /\ \E o \in 1..Len(objects) :
         /\ ZeroWidth(o) /\ HasTag(o)
         /\ Len(returned[objects[o].begin + 1]) = 2
         /\ \A i \in TagPlaces(o, "start") : SelfClosedAt(i)

(***************************************************************************)
(* Properties of normalize_attributes                                      *)
(***************************************************************************)

\* C5: normalize_attributes is idempotent: normalising its own result gives
\* the same keys with the same values.
C5_NormalizeIdempotent ==
    pc = "renormalized" =>
        renormalized.exc = "" /\ DictEq(renormalized.d, normalized.d)

FlairRaw == <<[k |-> VALUE_STRING, v |-> Str(FlairScore)]>>

ScoringPair(model, score) ==
    <<[k |-> HTML_DATA_SCORE_STRING, v |-> Str(score)],
      [k |-> HTML_DATA_MODEL_STRING, v |-> Str(model)]>>

\* C6 as stated: the raw value 'Flair;score=0.91234' yields exactly one
\* scoring pair, model 'Flair' and score '0.912'.
C6_FlairScoreThreeDecimals ==
    (pc = "normalized" /\ raw_attributes = FlairRaw) =>
        /\ normalized.exc = ""
        /\ DictEq(normalized.d,
                  ScoringPair(<<"F","l","a","i","r">>, <<"0",".","9","1","2">>))

\* C6, amended: the raw value 'Flair;score=0.91234' yields exactly one scoring
\* pair, model 'Flair' and score '0.91' (the first four characters of the score
\* literal).
C6_FlairScoreFourCharacters ==
    (pc = "normalized" /\ raw_attributes = FlairRaw) =>
        /\ normalized.exc = ""
        /\ DictEq(normalized.d,
                  ScoringPair(<<"F","l","a","i","r">>, <<"0",".","9","1">>))

C6_Witness ==
    /\ pc = "normalized"
    /\ raw_attributes = FlairRaw
    /\ Len(normalized.d) = 2

(***************************************************************************)
(* Properties of generate_pseudo_tei_from_file                             *)
(***************************************************************************)

\* C7: when the annotation pass hits a parse error, the function returns
\* None.
C7_ParseErrorReturnsNone ==
    (pc = "done" /\ parse_error) => result = None

\* C8: for a well-formed document in which the scan finds no text payload or
\* collects no annotation, the function returns None.
C8_NoContentReturnsNone ==
    (pc = "done" /\ ~parse_error /\ (text = <<>> \/ Len(objects) = 0)) => result = None

C8_Witness ==
    /\ pc = "done"
    /\ ~parse_error
    /\ text = <<>>
    /\ Len(objects) = MaxAnnotations
    /\ result = None

\* C9: no start tag and no end tag of the output belongs to an annotation
\* whose name contains 'wikipedialink' or 'other'.
C9_NoiseNeverTagged ==
    OutputReturned =>
        \A o \in 1..Len(objects) :
            (IsWikipediaLink(objects[o]) \/ IsOther(objects[o])) => ~HasTag(o)

(***************************************************************************)
(* Properties of ProximityReasoner.evaluate                                *)
(***************************************************************************)

\* The place of the pair (i, j), i < j, among the combinations of n elements
CombinationPlace(n, i, j) == (i - 1) * n - ((i * (i - 1)) \div 2) + (j - i)

\* A result that pairs a and b
Pairs(r, a, b) == r.annotations = <<a, b>> \/ r.annotations = <<b, a>>

\* C10: for two non-empty lists evaluate returns one result for each pair of
\* an element of the first and an element of the second list, in product
\* order; for a non-empty first list and no second list it returns one result
\* for each pair of places of the list, in combination order.
C10_PairsInOrder ==
    (pc = "evaluated" /\ named_entities # None /\ named_entities.value # <<>>) =>
        LET A == named_entities.value
        IN IF comparison_named_entities = None
           THEN /\ proximity_results.kind = "list"
                /\ Len(proximity_results.value) = (Len(A) * (Len(A) - 1)) \div 2
                /\ \A i, j \in 1..Len(A) :
                     i < j => Pairs(proximity_results.value[CombinationPlace(Len(A), i, j)],
                                    A[i], A[j])
           ELSE comparison_named_entities.value # <<>> =>
                LET B == comparison_named_entities.value
                IN /\ proximity_results.kind = "list"
                   /\ Len(proximity_results.value) = Len(A) * Len(B)
                   /\ \A i \in 1..Len(A), j \in 1..Len(B) :
                        Pairs(proximity_results.value[(i - 1) * Len(B) + j], A[i], B[j])

C10_Witness ==
    /\ pc = "evaluated"
    /\ named_entities # None
    /\ comparison_named_entities # None
    /\ Len(named_entities.value) = 2
    /\ Len(comparison_named_entities.value) = 3
    /\ named_entities.value[1] # named_entities.value[2]
    /\ proximity_results.kind = "list"
    /\ Len(proximity_results.value) = 6

(***************************************************************************)
(* Priority and attribute count in remove_double_annotations               *)
(***************************************************************************)

\* The place of the type of o in NE_CLASS_PRIORITY, 0 when it is not listed
PriorityPlace(o) ==
    LET type == remove_namespace(objects[o].name)
        places == {i \in 1..Len(NE_CLASS_PRIORITY) : NE_CLASS_PRIORITY[i] = type}
    IN IF places = {} THEN 0 ELSE CHOOSE i \in places : TRUE

\* o is left in the set of its span
LeftInSpan(o) == InList(DGet(annotations, <<objects[o].begin, objects[o].end>>), o)

\* C11: of two annotations on one exact span whose types are both in the
\* priority list, remove_double_annotations removes the one that is lower in
\* the list.
C11_LowerPriorityRemoved ==
    pc = "single" =>
        \A o, p \in 1..Len(objects) :
            (/\ has_same_position(objects[o], objects[p])
             /\ PriorityPlace(o) > 0
             /\ PriorityPlace(p) > PriorityPlace(o)) => ~LeftInSpan(p)

\* C12: of the annotations of one name on one exact span exactly one is left
\* by remove_double_annotations, and it has at least as many attributes as
\* every removed one, in every iteration order of the span's set.
C12_SurvivorHasMostAttributes ==
    pc = "single" =>
        \A o \in 1..Len(objects) :
            LET left == {p \in SameNamed(o) : LeftInSpan(p)}
            IN /\ Cardinality(left) = 1
               /\ \A s \in left, r \in SameNamed(o) \ left :
                    Len(objects[s].attributes) >= Len(objects[r].attributes)

C12_Witness ==
    /\ pc = "single"
    /\ \E o, p, q \in 1..Len(objects) :
         /\ o < p /\ p < q
         /\ {o, p} \subseteq SameNamed(q)
         /\ Len(objects[o].attributes) > Len(objects[p].attributes)
         /\ Len(objects[p].attributes) > Len(objects[q].attributes)
         /\ LeftInSpan(o) /\ ~LeftInSpan(p) /\ ~LeftInSpan(q)

(***************************************************************************)
(* The order of the tags of one position                                   *)
(***************************************************************************)

IsSentence(o) == Lower(remove_namespace(objects[o].name)) = SENTENCE
IsPage(o) == Lower(remove_namespace(objects[o].name)) = PAGE

\* Place i of the output holds a start or an end tag
IsTag(i) == result.value[i].kind \in {"start", "end"}

\* The pairs of places i < j that hold tags emitted at one position
TagPairs ==
    {ij \in (1..Len(result.value)) \X (1..Len(result.value)) :
        /\ ij[1] < ij[2]
        /\ IsTag(ij[1]) /\ IsTag(ij[2])
        /\ result.value[ij[1]].pos = result.value[ij[2]].pos}

\* The tier of the tag at place i in the order of the claim: sentences, pages,
\* other annotations that end at the position, the rest
StatedTier(i) ==
    LET o == result.value[i].ann
    IN IF IsSentence(o) THEN 1
       ELSE IF IsPage(o) THEN 2
       ELSE IF objects[o].end = result.value[i].pos THEN 3
       ELSE 4

\* The tier of the tag at place i in the order of the sort key: other
\* annotations that end at the position, pages, sentences, the rest
KeyTier(i) ==
    LET o == result.value[i].ann
    IN IF IsSentence(o) THEN 3
       ELSE IF IsPage(o) THEN 2
       ELSE IF objects[o].end = result.value[i].pos THEN 1
       ELSE 4

C14_EndTagsBeforeStartTags ==
    OutputReturned =>
        \A ij \in TagPairs :
            ~(/\ result.value[ij[1]].kind = "start"
              /\ objects[result.value[ij[1]].ann].begin < objects[result.value[ij[1]].ann].end
              /\ result.value[ij[2]].kind = "end")

\* C15: of two annotations, neither a sentence nor a page, that begin at one
\* position and end at different positions, the one that ends later gets its
\* start tag first.
C15_LaterEndStartsFirst ==
    OutputReturned =>
        \A ij \in TagPairs :
            LET o == result.value[ij[1]].ann
                p == result.value[ij[2]].ann
            IN (/\ result.value[ij[1]].kind = "start"
                /\ result.value[ij[2]].kind = "start"
                /\ ~IsSentence(o) /\ ~IsPage(o)
                /\ ~IsSentence(p) /\ ~IsPage(p)
                /\ objects[o].begin = objects[p].begin
                /\ objects[o].end # objects[p].end) => objects[o].end > objects[p].end

(***************************************************************************)
(* Properties of the comment enrichment                                    *)
(***************************************************************************)

\* The comment records with the PATO key that reference object o
PatoCommentsOf(o) ==
    {i \in 1..Len(comments) :
        comments[i].reference = objects[o].id /\ comments[i].key = PATO_URI_KEY}

\* C16: after the enrichment every annotation that a comment record with the
\* PATO key references has the value of such a record as its value attribute,
\* whatever other records reference it and in whatever order.
C16_PatoCommentSetsValue ==
    pc = "enriched" =>
        \A o \in 1..Len(objects) :
            PatoCommentsOf(o) # {} =>
                /\ DHas(objects[o].attributes, VALUE_STRING)
                /\ \E i \in PatoCommentsOf(o) :
                     DGet(objects[o].attributes, VALUE_STRING) = Str(comments[i].value)

(***************************************************************************)
(* Exceptions and keys of normalize_attributes                             *)
(***************************************************************************)

\* C17: normalize_attributes returns a mapping, and raises nothing, for every
\* raw attribute mapping over the expectable attribute names.
C17_NormalizeNeverRaises ==
    pc = "normalized" => normalized.exc = ""

\* C18: for a raw mapping with the key Target and value T the result has the
\* key wikipedia-title, holding T, and has no key Target.
C18_TargetBecomesWikipediaTitle ==
    (pc = "normalized" /\ DHas(raw_attributes, "Target")) =>
        /\ normalized.exc = ""
        /\ DHas(normalized.d, WIKIPEDIA_TITLE)
        /\ DGet(normalized.d, WIKIPEDIA_TITLE)
              \in {DGet(raw_attributes, "Target"),
                   List(<<DGet(raw_attributes, "Target").v>>)}
        /\ ~DHas(normalized.d, "Target")

\* The names of RELEVANT_ATTRIBUTES and the name of the renamed Target
SemanticKeys ==
    {RELEVANT_ATTRIBUTES[i].name : i \in 1..Len(RELEVANT_ATTRIBUTES)} \cup {WIKIPEDIA_TITLE}

\* The raw names that are no semantic key
RawOnlyNames ==
    {EXPECTABLE_ATTRIBUTES[i] : i \in 1..Len(EXPECTABLE_ATTRIBUTES)} \ SemanticKeys

\* A semantic key or its indexed form key-N
IsSemanticKey(k) ==
    \/ k \in SemanticKeys
    \/ \E key \in SemanticKeys, n \in 0..9 : k = IndexedKey(key, n)

\* C20: every key of a mapping that normalize_attributes returns is a semantic
\* key or an indexed form of one, and none is a raw attribute name.
C20_OnlySemanticKeys ==
    (pc = "normalized" /\ normalized.exc = "") =>
        \A i \in 1..Len(normalized.d) :
            /\ IsSemanticKey(normalized.d[i].k)
            /\ normalized.d[i].k \notin RawOnlyNames

C20_Witness ==
    /\ pc = "normalized"
    /\ normalized.exc = ""
    /\ DHas(raw_attributes, "id")
    /\ DHas(raw_attributes, VALUE_STRING)
    /\ DHas(normalized.d, URI)
    /\ DHas(normalized.d, IndexedKey("wikidata", 1))

(***************************************************************************)
(* The closing page tag                                                    *)
(***************************************************************************)

\* C19: when a start tag of a page annotation has been emitted (here: one that
\* is not self-closed, so that the page is open) and the output of the scan
\* does not end with the closing page tag, the returned string ends with the
\* closing page tag.
C19_OpenPageClosed ==
    OutputReturned =>
        ((/\ \E i \in 1..Len(result.value) :
                /\ result.value[i].kind = "start"
                /\ IsPage(result.value[i].ann)
                /\ ~SelfClosedAt(i)
          /\ ~EndsWith(Flatten(full_text), CLOSING_OCRPAGE_TAG))
            => EndsWith(Flatten(result.value), CLOSING_OCRPAGE_TAG))

(***************************************************************************)
(* The indexed keys of normalize_attributes                                *)
(***************************************************************************)

\* The values of a raw entry in the order in which its text holds them
RawPieces(e) == re_split(unquote(e.v.v))

\* a occurs before b among the values of one raw entry
OccursBefore(a, b) ==
    \E e \in 1..Len(raw_attributes) :
        LET pieces == RawPieces(raw_attributes[e])
        IN \E i, j \in 1..Len(pieces) : i < j /\ pieces[i] = a /\ pieces[j] = b

\* a and b are two different values of one raw entry
HeldTogether(a, b) ==
    /\ a # b
    /\ \E e \in 1..Len(raw_attributes) :
        LET pieces == RawPieces(raw_attributes[e])
        IN \E i, j \in 1..Len(pieces) : pieces[i] = a /\ pieces[j] = b

\* C21: when one raw attribute holds several values that match one
\* definition, the indexed keys name-0, name-1, ... go to the values in the
\* order in which the raw attribute value holds them.
C21_IndexFollowsRawOrder ==
    (pc = "normalized" /\ normalized.exc = "") =>
        \A name \in SemanticKeys, i, j \in 0..9 :
            (/\ i < j
             /\ DHas(normalized.d, IndexedKey(name, i))
             /\ DHas(normalized.d, IndexedKey(name, j))
             /\ HeldTogether(DGet(normalized.d, IndexedKey(name, i)).v,
                             DGet(normalized.d, IndexedKey(name, j)).v))
                => OccursBefore(DGet(normalized.d, IndexedKey(name, i)).v,
                                DGet(normalized.d, IndexedKey(name, j)).v)

(***************************************************************************)
(* What the output holds besides tags                                      *)
(***************************************************************************)

\* The piece is a start tag or an end tag
IsTagPiece(p) == p.kind \in {"start", "end", "page"}

IsNoTagPiece(p) == ~IsTagPiece(p)

\* The output with every start tag and end tag deleted
WithoutTags(pieces) == Flatten(SelectSeq(pieces, IsNoTagPiece))

\* The HTML-escaped characters of s in their order
RECURSIVE EscapedText(_)
EscapedText(s) ==
    IF s = <<>> THEN <<>> ELSE html_escape(s[1]) \o EscapedText(Tail(s))

\* C22: deleting every start tag and end tag from the returned string leaves
\* exactly the HTML-escaped characters of the text in their order; an
\* annotation, also one with an excluded name, adds no other character.
C22_OnlyEscapedTextBesidesTags ==
    OutputReturned => WithoutTags(result.value) = EscapedText(text[1])

(***************************************************************************)
(* The attributes of a rendered start tag                                  *)
(***************************************************************************)

\* The pieces that the step appended to the output
NewPlaces == (Len(full_text) + 1)..Len(full_text')

\* The start tag of object o as rendered from one normalisation of the
\* attributes that o had before the step
SingleNormalizationTag(o) ==
    start_tag([objects'[o] EXCEPT
                   !.attributes = normalize_attributes(objects[o].attributes, hashseed).d])

\* C23: in one run of annotate_text the attributes of an annotation are
\* normalised at most once: a start tag that a round of the loop renders
\* holds the single normalisation of the attributes the annotation had
\* before the round, also for a zero-width annotation.
C23_StartTagOfSingleNormalization ==
    [][(pc = "render" /\ pc' = "render") =>
          \A i \in NewPlaces :
              full_text'[i].kind = "start"
                  => full_text'[i].s = SingleNormalizationTag(full_text'[i].ann)]_vars

=============================================================================
